---- MODULE Spec2Model ----
(***************************************************************************)
(* Model of the currency conversion service of currency_converter.py:     *)
(* the exchange_rates table, the lock that guards it, the refresh cycle    *)
(* (fetch_exchange_rates -> update_all_exchange_rates) that runs once on   *)
(* the main thread at startup and then on the scheduler thread, the       *)
(* request loop with its three handlers, and the shutdown path taken on    *)
(* KeyboardInterrupt (the finally block).                                  *)
(*                                                                         *)
(* Floating-point rates are modelled as exact rationals <<n, d>> in lowest *)
(* terms with d > 0.                                                       *)
(***************************************************************************)
EXTENDS Integers, Sequences, FiniteSets, TLC

VARIABLES
    exchange_rates,   \* the module-level dict: source code -> (target code -> rate)
    lock,             \* exchange_rates_lock: "free" or the thread holding it
    pc,               \* the position of each thread
    call,             \* locals of the refresh cycle in progress, per thread
    log,              \* the line printed by the refresh cycle in progress
    request,          \* the message the request loop is handling
    response,         \* the handler's return value (a fresh dict, or a row of exchange_rates)
    sent,             \* the last reply serialised by socket.send_json
    preM,             \* history: exchange_rates when the refresh cycle in progress began
    published,        \* history: the matrix of the latest build that returned normally
    reqPublished,     \* history: published, when the current request was received
    buildFailed,      \* history: some build has been aborted by an exception
    shutdown_event,   \* the module-level Event: TRUE once set
    socket,           \* the REP socket: "bound" or "closed" (with its context)
    owed,             \* requests received on the socket and not yet replied to
    startup           \* history: the outcome of the refresh of line 214

vars == <<exchange_rates, lock, pc, call, log, request, response, sent,
          preM, published, reqPublished, buildFailed,
          shutdown_event, socket, owed, startup>>

-----------------------------------------------------------------------------
(* Values *)

None == "None"

\* The largest integer rate the provider quotes under SpecBuild.
MaxRate == 4

\* Insertion order of the SUPPORTED_CURRENCIES dict: the build iterates in it.
CurrencyOrder == <<"USD", "EUR", "JPY", "GBP">>

SUPPORTED_CURRENCIES ==
    [c \in {"USD", "EUR", "JPY", "GBP"} |->
        CASE c = "USD" -> "United States Dollar"
          [] c = "EUR" -> "Euro"
          [] c = "JPY" -> "Japenese Yen"
          [] c = "GBP" -> "British Pound"]

Currencies == DOMAIN SUPPORTED_CURRENCIES

NumCurrencies == Len(CurrencyOrder)

Threads == {"main", "sched"}

\* The empty dict.
EmptyDict == <<>>

-----------------------------------------------------------------------------
(* Rational arithmetic standing for Python float arithmetic *)

Abs(n) == IF n < 0 THEN -n ELSE n

RECURSIVE GCD(_, _)
GCD(a, b) == IF b = 0 THEN a ELSE GCD(b, a % b)

Norm(n, d) ==
    LET s == IF d < 0 THEN -1 ELSE 1
        g == GCD(Abs(n), Abs(d))
    IN  <<(s * n) \div g, (s * d) \div g>>

Rat(n) == <<n, 1>>

Mul(a, b) == Norm(a[1] * b[1], a[2] * b[2])

\* a / b for b # 0
Quot(a, b) == Norm(a[1] * b[2], a[2] * b[1])

IsZero(a) == a[1] = 0

IsPositive(a) == a[1] > 0

-----------------------------------------------------------------------------
(* Python evaluation results: a value, or a raised exception *)

Value(v) == [ok |-> TRUE, val |-> v]

Raise(e) == [ok |-> FALSE, error |-> e]

\* rates == None stands for an absent "rates" field (data.get returns None).
NoRates == [none |-> TRUE]

\* rates[key]
Subscript(rates, key) ==
    IF rates = NoRates THEN Raise("TypeError")
    ELSE IF key \notin DOMAIN rates THEN Raise("KeyError")
    ELSE Value(rates[key])

\* a / b on numbers
TrueDiv(a, b) == IF IsZero(b) THEN Raise("ZeroDivisionError") ELSE Value(Quot(a, b))

\* calculate_exchange_rate with the cross rate upside down
calculate_exchange_rate_Swapped(base_currency, src_currency, tgt_currency, rates) ==
    IF src_currency = base_currency
    THEN Subscript(rates, tgt_currency)
    ELSE IF tgt_currency = base_currency
    THEN LET s == Subscript(rates, src_currency)
         IN  IF s.ok THEN TrueDiv(Rat(1), s.val) ELSE s
    ELSE LET t == Subscript(rates, tgt_currency)
             s == Subscript(rates, src_currency)
         IN  IF ~t.ok THEN t
             ELSE IF ~s.ok THEN s
             ELSE TrueDiv(s.val, t.val)

\* calculate_exchange_rate without the inversion towards the base
calculate_exchange_rate_NoInverse(base_currency, src_currency, tgt_currency, rates) ==
    IF src_currency = base_currency
    THEN Subscript(rates, tgt_currency)
    ELSE IF tgt_currency = base_currency
    THEN Subscript(rates, src_currency)
    ELSE LET t == Subscript(rates, tgt_currency)
             s == Subscript(rates, src_currency)
         IN  IF ~t.ok THEN t
             ELSE IF ~s.ok THEN s
             ELSE TrueDiv(t.val, s.val)

calculate_exchange_rate(base_currency, src_currency, tgt_currency, rates) ==
    IF src_currency = base_currency
    THEN Subscript(rates, tgt_currency)
    ELSE IF tgt_currency = base_currency
    THEN LET s == Subscript(rates, src_currency)
         IN  IF s.ok THEN TrueDiv(Rat(1), s.val) ELSE s
    ELSE LET t == Subscript(rates, tgt_currency)
             s == Subscript(rates, src_currency)
         IN  IF ~t.ok THEN t
             ELSE IF ~s.ok THEN s
             ELSE TrueDiv(t.val, s.val)

\* The table a build that runs to its end leaves: lines 124-131 for a quote set
\* on which no rate computation raises.
Triangulated(base, rates) ==
    [src \in Currencies |->
        [tgt \in Currencies \ {src} |->
            calculate_exchange_rate(base, src, tgt, rates).val]]

\* The guard without the test of rates
QuoteAbsent_BaseOnly(base, rates) == base = None

\* The guard of update_all_exchange_rates: None in (base, rates)
QuoteAbsent(base, rates) == base = None \/ rates = NoRates

-----------------------------------------------------------------------------
(* Dict helpers *)

\* d[k] = v
Put(d, k, v) == [x \in (DOMAIN d) \cup {k} |-> IF x = k THEN v ELSE d[x]]

-----------------------------------------------------------------------------
(* The rate provider (urlopen + json.loads + data.get): one reply per cycle *)

Reply(base, rates) == [raised |-> FALSE, base |-> base, rates |-> rates]

\* urlopen or json.loads raised
ProviderFailure == [raised |-> TRUE, base |-> None, rates |-> NoRates]

QuoteA == ("EUR" :> Rat(2)) @@ ("JPY" :> Rat(4)) @@ ("GBP" :> <<1, 2>>)

\* EUR at 0.9
QuoteB == ("EUR" :> <<9, 10>>) @@ ("JPY" :> Rat(3)) @@ ("GBP" :> Rat(1))

\* no entry for GBP
QuoteMissing == ("EUR" :> Rat(3)) @@ ("JPY" :> Rat(1))

\* a zero rate for EUR
QuoteZero == ("EUR" :> Rat(0)) @@ ("JPY" :> Rat(2)) @@ ("GBP" :> Rat(3))

\* The replies the provider gives in the service model.
ProviderReplies ==
    { ProviderFailure,
      Reply("USD", NoRates),
      Reply(None, QuoteA),
      Reply("USD", QuoteA),
      Reply("USD", QuoteB),
      Reply("USD", QuoteMissing),
      Reply("USD", QuoteZero) }

\* Every quote set over the supported currencies with integer rates 0..MaxRate,
\* any entry possibly missing.
RateValues == {Rat(n) : n \in 0..MaxRate}

AllQuotes == UNION {[D -> RateValues] : D \in SUBSET Currencies}

AllReplies ==
    {ProviderFailure}
    \cup {Reply(b, NoRates) : b \in Currencies}
    \cup {Reply(b, q) : b \in Currencies \cup {None}, q \in AllQuotes}

-----------------------------------------------------------------------------
(* The refresh cycle: fetch_exchange_rates calling update_all_exchange_rates *)

NoCall == [raised |-> FALSE, base |-> None, rates |-> NoRates, i |-> 0, j |-> 0]

NoLog == [msg |-> "", error |-> ""]

\* Where a thread is while a refresh cycle runs on it.
CyclePcs == {"urlopen", "acquire", "build", "release", "fetch_return"}

\* Where fetch_exchange_rates returns to.
AfterFetch(t) == IF t = "main" THEN "schedule" ELSE "idle"

\* A refresh that takes the lock before the provider call
FetchBegin_Locked(t) ==
    /\ lock = "free"
    /\ lock' = t
    /\ pc' = [pc EXCEPT ![t] = "urlopen"]
    /\ preM' = exchange_rates
    /\ call' = [call EXCEPT ![t] = NoCall]
    /\ UNCHANGED <<exchange_rates, log, request, response, sent,
                   published, reqPublished, buildFailed,
                   shutdown_event, socket, owed, startup>>

\* fetch_exchange_rates is entered: the provider call is in flight.
FetchBegin(t) ==
    /\ pc' = [pc EXCEPT ![t] = "urlopen"]
    /\ preM' = exchange_rates
    /\ call' = [call EXCEPT ![t] = NoCall]
    /\ UNCHANGED <<exchange_rates, lock, log, request, response, sent,
                   published, reqPublished, buildFailed,
                   shutdown_event, socket, owed, startup>>

\* A startup that goes to line 217 without the refresh of line 214
StartupRefresh_Skipped ==
    /\ pc["main"] = "startup"
    /\ pc' = [pc EXCEPT !["main"] = "schedule"]
    /\ UNCHANGED <<exchange_rates, lock, call, log, request, response, sent,
                   preM, published, reqPublished, buildFailed,
                   shutdown_event, socket, owed, startup>>

\* Line 214: the refresh made on the main thread before the loop.
StartupRefresh ==
    /\ pc["main"] = "startup"
    /\ FetchBegin("main")

\* Line 139: schedule.run_pending() finds the hourly job due.
TimerFire ==
    /\ pc["sched"] = "run_pending"
    /\ FetchBegin("sched")

\* The provider call ends with reply r: lines 85-91, and lines 118-120 of
\* update_all_exchange_rates.
FetchReply(t, r) ==
    /\ IF r.raised
       THEN /\ log' = [msg |-> "Failed to fetch exchange rates", error |-> "URLError"]
            /\ pc' = [pc EXCEPT ![t] = "fetch_return"]
            /\ call' = [call EXCEPT ![t] = [NoCall EXCEPT !.raised = TRUE]]
       ELSE IF QuoteAbsent(r.base, r.rates)
       THEN /\ log' = [msg |-> "Failed to update exchange rates.", error |-> ""]
            /\ pc' = [pc EXCEPT ![t] = "fetch_return"]
            /\ call' = [call EXCEPT ![t] = [NoCall EXCEPT !.base = r.base, !.rates = r.rates]]
       ELSE /\ log' = log
            /\ pc' = [pc EXCEPT ![t] = "acquire"]
            /\ call' = [call EXCEPT ![t] = [NoCall EXCEPT !.base = r.base, !.rates = r.rates]]
    /\ UNCHANGED <<exchange_rates, lock, request, response, sent,
                   preM, published, reqPublished, buildFailed,
                   shutdown_event, socket, owed, startup>>

UrlopenReturn(t) ==
    /\ pc[t] = "urlopen"
    /\ \E r \in ProviderReplies : FetchReply(t, r)

\* Line 123: with exchange_rates_lock (blocks while the lock is held).
UpdateAcquire(t) ==
    /\ pc[t] = "acquire"
    /\ lock = "free"
    /\ lock' = t
    /\ pc' = [pc EXCEPT ![t] = "build"]
    /\ call' = [call EXCEPT ![t].i = 1, ![t].j = 0]
    /\ UNCHANGED <<exchange_rates, log, request, response, sent,
                   preM, published, reqPublished, buildFailed,
                   shutdown_event, socket, owed, startup>>

\* The loop position after the inner iteration j of the outer iteration i.
Advance(c) ==
    IF c.j < NumCurrencies THEN [c EXCEPT !.j = c.j + 1]
    ELSE IF c.i < NumCurrencies THEN [c EXCEPT !.i = c.i + 1, !.j = 0]
    ELSE [c EXCEPT !.i = 0, !.j = 0]

BuildOver(c) == c.i = NumCurrencies /\ c.j = NumCurrencies

\* Line 125: exchange_rates[src_currency] = {}. A handler that holds the old row
\* object keeps that object, with its contents.
BuildRowReset(t) ==
    /\ pc[t] = "build"
    /\ call[t].j = 0
    /\ LET src == CurrencyOrder[call[t].i] IN
        /\ exchange_rates' = Put(exchange_rates, src, EmptyDict)
        /\ response' = IF response.alias = src
                       THEN [alias |-> None, body |-> exchange_rates[src]]
                       ELSE response
    /\ call' = [call EXCEPT ![t].j = 1]
    /\ UNCHANGED <<lock, pc, log, request, sent, preM, published, reqPublished, buildFailed,
                   shutdown_event, socket, owed, startup>>

\* The inner loop without the test of line 127
SkipTarget_Never(src, tgt) == FALSE

\* Line 127 (negated): the inner loop skips the source itself.
SkipTarget(src, tgt) == src = tgt

\* Lines 126-131: one iteration of the inner loop that stores a rate or skips
\* the source itself.
BuildEntry(t) ==
    /\ pc[t] = "build"
    /\ call[t].j >= 1
    /\ LET src == CurrencyOrder[call[t].i]
           tgt == CurrencyOrder[call[t].j]
           rate == calculate_exchange_rate(call[t].base, src, tgt, call[t].rates)
       IN  /\ ~SkipTarget(src, tgt) => rate.ok
           /\ exchange_rates' =
                IF ~SkipTarget(src, tgt)
                THEN Put(exchange_rates, src, Put(exchange_rates[src], tgt, rate.val))
                ELSE exchange_rates
    /\ call' = [call EXCEPT ![t] = Advance(call[t])]
    /\ pc' = [pc EXCEPT ![t] = IF BuildOver(call[t]) THEN "release" ELSE "build"]
    /\ UNCHANGED <<lock, log, request, response, sent, preM, published, reqPublished, buildFailed,
                   shutdown_event, socket, owed, startup>>

\* A build whose exception is not caught: it ends the thread it runs on
BuildRaise_Uncaught(t) ==
    /\ pc[t] = "build"
    /\ call[t].j >= 1
    /\ LET src == CurrencyOrder[call[t].i]
           tgt == CurrencyOrder[call[t].j]
           rate == calculate_exchange_rate(call[t].base, src, tgt, call[t].rates)
       IN  /\ ~SkipTarget(src, tgt)
           /\ ~rate.ok
    /\ lock' = "free"
    /\ buildFailed' = TRUE
    /\ pc' = [pc EXCEPT ![t] = "exited"]
    /\ UNCHANGED <<exchange_rates, call, log, request, response, sent, preM,
                   published, reqPublished, shutdown_event, socket, owed, startup>>

\* A build whose exception leaves the lock held
BuildRaise_KeepsLock(t) ==
    /\ pc[t] = "build"
    /\ call[t].j >= 1
    /\ LET src == CurrencyOrder[call[t].i]
           tgt == CurrencyOrder[call[t].j]
           rate == calculate_exchange_rate(call[t].base, src, tgt, call[t].rates)
       IN  /\ ~SkipTarget(src, tgt)
           /\ ~rate.ok
           /\ log' = [msg |-> "Failed to fetch exchange rates", error |-> rate.error]
    /\ buildFailed' = TRUE
    /\ pc' = [pc EXCEPT ![t] = "fetch_return"]
    /\ UNCHANGED <<exchange_rates, lock, call, request, response, sent, preM,
                   published, reqPublished, shutdown_event, socket, owed, startup>>

\* Lines 128-130 raise: the with block releases the lock and the exception is
\* caught and printed by fetch_exchange_rates (lines 90-91).
BuildRaise(t) ==
    /\ pc[t] = "build"
    /\ call[t].j >= 1
    /\ LET src == CurrencyOrder[call[t].i]
           tgt == CurrencyOrder[call[t].j]
           rate == calculate_exchange_rate(call[t].base, src, tgt, call[t].rates)
       IN  /\ ~SkipTarget(src, tgt)
           /\ ~rate.ok
           /\ log' = [msg |-> "Failed to fetch exchange rates", error |-> rate.error]
    /\ lock' = "free"
    /\ buildFailed' = TRUE
    /\ pc' = [pc EXCEPT ![t] = "fetch_return"]
    /\ UNCHANGED <<exchange_rates, call, request, response, sent, preM, published, reqPublished,
                   shutdown_event, socket, owed, startup>>

\* Lines 131-133: the with block ends, "Exchange rates updated." is printed and
\* both functions return.
UpdateRelease(t) ==
    /\ pc[t] = "release"
    /\ lock' = "free"
    /\ log' = [msg |-> "Exchange rates updated.", error |-> ""]
    /\ published' = exchange_rates
    /\ pc' = [pc EXCEPT ![t] = "fetch_return"]
    /\ UNCHANGED <<exchange_rates, call, request, response, sent, preM, reqPublished, buildFailed,
                   shutdown_event, socket, owed, startup>>

\* fetch_exchange_rates returns; its locals are gone.
FetchReturn(t) ==
    /\ pc[t] = "fetch_return"
    /\ pc' = [pc EXCEPT ![t] = AfterFetch(t)]
    /\ call' = [call EXCEPT ![t] = NoCall]
    /\ log' = NoLog
    /\ preM' = EmptyDict
    /\ startup' = IF t # "main" THEN startup
                  ELSE IF log.msg = "Exchange rates updated." THEN "updated"
                  ELSE "failed"
    /\ UNCHANGED <<exchange_rates, lock, request, response, sent,
                   published, reqPublished, buildFailed,
                   shutdown_event, socket, owed>>

-----------------------------------------------------------------------------
(* Requests and the three handlers *)

\* An amount as decoded from JSON: its Python type and, for a number, its value.
IntAmount(n) == [type |-> "int", val |-> Rat(n)]

FloatAmount(n, d) == [type |-> "float", val |-> Norm(n, d)]

\* JSON true
TrueAmount == [type |-> "bool", val |-> Rat(1)]

StrAmount == [type |-> "str", val |-> Rat(0)]

\* JSON null, or no "amount" key (data.get returns None)
NoneAmount == [type |-> "NoneType", val |-> Rat(0)]

\* isinstance(amount, (int, float)); bool is a subclass of int.
IsNumber(amount) == amount.type \in {"int", "float", "bool"}

\* A message: its action and its data object (hasData = FALSE: no "data" key,
\* message.get returns None). A key missing from data reads as None.
Message(action, hasData, src, tgt, amount, code) ==
    [action |-> action, hasData |-> hasData, source_currency |-> src,
     target_currency |-> tgt, amount |-> amount, currency_code |-> code]

ConvertMessage(src, tgt, amount) ==
    Message("convert_currency", TRUE, src, tgt, amount, None)

RatesMessage(code) ==
    Message("get_exchange_rates", TRUE, None, None, NoneAmount, code)

NoMessage == Message("", FALSE, None, None, NoneAmount, None)

\* The messages clients send in the service model.
ConvertPairs ==
    {<<"USD", "EUR">>, <<"EUR", "USD">>, <<"USD", "USD">>,
     <<"CHF", "EUR">>, <<"USD", "CHF">>, <<None, "EUR">>}

Requests ==
    {ConvertMessage(p[1], p[2], IntAmount(100)) : p \in ConvertPairs}
    \cup {ConvertMessage("USD", "GBP", FloatAmount(5, 2))}
    \cup {ConvertMessage(s, "EUR", a) :
            s \in {"USD", "CHF"}, a \in {TrueAmount, StrAmount, NoneAmount}}
    \cup {RatesMessage(c) : c \in {"USD", "EUR", "CHF", None}}
    \cup {Message(a, FALSE, None, None, NoneAmount, None) :
            a \in {"convert_currency", "get_exchange_rates",
                   "get_supported_currencies", "shutdown"}}

Error(msg) == [error |-> msg]

IsError(d) == "error" \in DOMAIN d

\* A handler's return value: the row object exchange_rates[alias] itself, or a
\* dict of its own (body).
Fresh(d) == [alias |-> None, body |-> d]

RowOf(code) == [alias |-> code, body |-> EmptyDict]

NoResponse == Fresh(EmptyDict)

NotSent == [nothing |-> TRUE]

\* The critical section dividing the amount by the rate
ConvertLocked_Divides(table, data) ==
    IF \/ data.source_currency \notin DOMAIN table
       \/ data.target_currency \notin DOMAIN table[data.source_currency]
    THEN Error("Invalid currency code")
    ELSE [source_currency |-> data.source_currency,
          target_currency |-> data.target_currency,
          amount |-> data.amount,
          converted_amount |->
              Quot(data.amount.val, table[data.source_currency][data.target_currency])]

\* The critical section answering a conversion of a currency to itself with
\* the amount unchanged
ConvertLocked_Identity(table, data) ==
    IF data.source_currency \in DOMAIN table
       /\ data.source_currency = data.target_currency
    THEN [source_currency |-> data.source_currency,
          target_currency |-> data.target_currency,
          amount |-> data.amount,
          converted_amount |-> data.amount.val]
    ELSE IF \/ data.source_currency \notin DOMAIN table
            \/ data.target_currency \notin DOMAIN table[data.source_currency]
    THEN Error("Invalid currency code")
    ELSE [source_currency |-> data.source_currency,
          target_currency |-> data.target_currency,
          amount |-> data.amount,
          converted_amount |->
              Mul(data.amount.val, table[data.source_currency][data.target_currency])]

\* The critical section testing the source only: a target missing from the row
\* reaches line 169
ConvertLocked_SourceOnly(table, data) ==
    IF data.source_currency \notin DOMAIN table
    THEN Error("Invalid currency code")
    ELSE IF data.target_currency \notin DOMAIN table[data.source_currency]
    THEN Error("Exchange rate not available")
    ELSE [source_currency |-> data.source_currency,
          target_currency |-> data.target_currency,
          amount |-> data.amount,
          converted_amount |->
              Mul(data.amount.val, table[data.source_currency][data.target_currency])]

\* Lines 160-178 of handle_convert_currency, run on the table as it is while the
\* lock is held. (Rates are numbers here, so line 169 is not reached.)
ConvertLocked(table, data) ==
    IF \/ data.source_currency \notin DOMAIN table
       \/ data.target_currency \notin DOMAIN table[data.source_currency]
    THEN Error("Invalid currency code")
    ELSE [source_currency |-> data.source_currency,
          target_currency |-> data.target_currency,
          amount |-> data.amount,
          converted_amount |->
              Mul(data.amount.val, table[data.source_currency][data.target_currency])]

\* handle_convert_currency on a data dict, the table not changing meanwhile.
handle_convert_currency(table, data) ==
    IF ~IsNumber(data.amount)
    THEN Error("Amount must be a number")
    ELSE ConvertLocked(table, data)

\* handle_get_exchange_rates on a data dict, the table not changing meanwhile.
handle_get_exchange_rates(table, data) ==
    IF data.currency_code \notin DOMAIN table
    THEN Error("Invalid currency code")
    ELSE table[data.currency_code]

\* Code points of the letters used in currency codes (string comparison).
Ord(ch) ==
    CASE ch = "B" -> 66 [] ch = "C" -> 67 [] ch = "D" -> 68 [] ch = "E" -> 69
      [] ch = "G" -> 71 [] ch = "H" -> 72 [] ch = "J" -> 74 [] ch = "P" -> 80
      [] ch = "R" -> 82 [] ch = "S" -> 83 [] ch = "U" -> 85 [] ch = "Y" -> 89

Letters(code) ==
    CASE code = "USD" -> <<"U", "S", "D">>
      [] code = "EUR" -> <<"E", "U", "R">>
      [] code = "JPY" -> <<"J", "P", "Y">>
      [] code = "GBP" -> <<"G", "B", "P">>

\* a < b for strings
RECURSIVE SeqLess(_, _)
SeqLess(a, b) ==
    IF b = <<>> THEN FALSE
    ELSE IF a = <<>> THEN TRUE
    ELSE IF Ord(Head(a)) # Ord(Head(b)) THEN Ord(Head(a)) < Ord(Head(b))
    ELSE SeqLess(Tail(a), Tail(b))

StrLess(a, b) == SeqLess(Letters(a), Letters(b))

\* sorted(items): the items of dict d in ascending order of key
RECURSIVE SortedItems(_, _)
SortedItems(d, keys) ==
    IF keys = {} THEN <<>>
    ELSE LET k == CHOOSE x \in keys : \A y \in keys \ {x} : StrLess(x, y)
         IN  <<<<k, d[k]>>>> \o SortedItems(d, keys \ {k})

\* handle_get_supported_currencies: the dict built from the sorted items, in
\* insertion order.
handle_get_supported_currencies ==
    [sorted_currencies |-> SortedItems(SUPPORTED_CURRENCIES, Currencies)]

\* What json serialises for a return value when send_json runs.
Deref(r) == IF r.alias # None THEN exchange_rates[r.alias] ELSE r.body

-----------------------------------------------------------------------------
(* The main thread: startup, then the request loop *)

\* Line 217: schedule.every().hour.do(fetch_exchange_rates)
ScheduleJob ==
    /\ pc["main"] = "schedule"
    /\ pc' = [pc EXCEPT !["main"] = "start_thread"]
    /\ UNCHANGED <<exchange_rates, lock, call, log, request, response, sent,
                   preM, published, reqPublished, buildFailed,
                   shutdown_event, socket, owed, startup>>

\* Lines 220-221: the scheduler thread starts.
StartThread ==
    /\ pc["main"] = "start_thread"
    /\ pc["sched"] = "not_started"
    /\ pc' = [pc EXCEPT !["main"] = "loop", !["sched"] = "idle"]
    /\ UNCHANGED <<exchange_rates, lock, call, log, request, response, sent,
                   preM, published, reqPublished, buildFailed,
                   shutdown_event, socket, owed, startup>>

\* Lines 225-227: a message arrives (the client has taken the previous reply).
Recv ==
    /\ pc["main"] = "loop"
    /\ \E m \in Requests : request' = m
    /\ response' = NoResponse
    /\ sent' = NotSent
    /\ reqPublished' = published
    /\ owed' = owed + 1
    /\ pc' = [pc EXCEPT !["main"] = "dispatch"]
    /\ UNCHANGED <<exchange_rates, lock, call, log, preM, published, buildFailed,
                   shutdown_event, socket, startup>>

\* The handler returns r: on to line 237.
Return(r) ==
    /\ response' = r
    /\ pc' = [pc EXCEPT !["main"] = "send"]

\* An exception branch that goes back to line 223 without a reply
HandlerRaise_NoReply(e) ==
    /\ response' = NoResponse
    /\ pc' = [pc EXCEPT !["main"] = "loop"]

\* The handler raises: on to line 240.
HandlerRaise(e) ==
    /\ response' = Fresh(Error(e))
    /\ pc' = [pc EXCEPT !["main"] = "except"]

\* Lines 153-158: data.get on the three fields, then the amount check.
ConvertCheckAmount ==
    /\ pc["main"] = "dispatch"
    /\ request.action = "convert_currency"
    /\ IF ~request.hasData
       THEN HandlerRaise("'NoneType' object has no attribute 'get'")
       ELSE IF ~IsNumber(request.amount)
       THEN Return(Fresh(Error("Amount must be a number")))
       ELSE /\ pc' = [pc EXCEPT !["main"] = "convert_acquire"]
            /\ response' = response
    /\ UNCHANGED <<exchange_rates, lock, call, log, request, sent,
                   preM, published, reqPublished, buildFailed,
                   shutdown_event, socket, owed, startup>>

\* The handler entering its critical section without waiting for the lock
ConvertAcquire_NoWait ==
    /\ pc["main"] = "convert_acquire"
    /\ lock' = "main"
    /\ pc' = [pc EXCEPT !["main"] = "convert_locked"]
    /\ UNCHANGED <<exchange_rates, call, log, request, response, sent,
                   preM, published, reqPublished, buildFailed,
                   shutdown_event, socket, owed, startup>>

\* Line 160: with exchange_rates_lock (blocks while the lock is held).
ConvertAcquire ==
    /\ pc["main"] = "convert_acquire"
    /\ lock = "free"
    /\ lock' = "main"
    /\ pc' = [pc EXCEPT !["main"] = "convert_locked"]
    /\ UNCHANGED <<exchange_rates, call, log, request, response, sent,
                   preM, published, reqPublished, buildFailed,
                   shutdown_event, socket, owed, startup>>

\* Lines 161-178: the lookup and the multiplication; every way out of the with
\* block releases the lock.
ConvertBody ==
    /\ pc["main"] = "convert_locked"
    /\ Return(Fresh(ConvertLocked(exchange_rates, request)))
    /\ lock' = "free"
    /\ UNCHANGED <<exchange_rates, call, log, request, sent,
                   preM, published, reqPublished, buildFailed,
                   shutdown_event, socket, owed, startup>>

\* Lines 188-191: data.get and the membership test, made without the lock.
GetRatesCheck ==
    /\ pc["main"] = "dispatch"
    /\ request.action = "get_exchange_rates"
    /\ IF ~request.hasData
       THEN HandlerRaise("'NoneType' object has no attribute 'get'")
       ELSE IF request.currency_code \notin DOMAIN exchange_rates
       THEN Return(Fresh(Error("Invalid currency code")))
       ELSE /\ pc' = [pc EXCEPT !["main"] = "rates_return"]
            /\ response' = response
    /\ UNCHANGED <<exchange_rates, lock, call, log, request, sent,
                   preM, published, reqPublished, buildFailed,
                   shutdown_event, socket, owed, startup>>

\* Line 193: the row object itself is returned, again without the lock.
GetRatesReturn ==
    /\ pc["main"] = "rates_return"
    /\ Return(RowOf(request.currency_code))
    /\ UNCHANGED <<exchange_rates, lock, call, log, request, sent,
                   preM, published, reqPublished, buildFailed,
                   shutdown_event, socket, owed, startup>>

\* Lines 232-233
GetSupported ==
    /\ pc["main"] = "dispatch"
    /\ request.action = "get_supported_currencies"
    /\ Return(Fresh(handle_get_supported_currencies))
    /\ UNCHANGED <<exchange_rates, lock, call, log, request, sent,
                   preM, published, reqPublished, buildFailed,
                   shutdown_event, socket, owed, startup>>

\* Lines 234-235
UnknownAction ==
    /\ pc["main"] = "dispatch"
    /\ request.action \notin {"convert_currency", "get_exchange_rates",
                              "get_supported_currencies"}
    /\ Return(Fresh(Error("Unknown action")))
    /\ UNCHANGED <<exchange_rates, lock, call, log, request, sent,
                   preM, published, reqPublished, buildFailed,
                   shutdown_event, socket, owed, startup>>

\* Back to line 223: the iteration's locals are not read again.
LoopAgain ==
    /\ pc' = [pc EXCEPT !["main"] = "loop"]
    /\ request' = NoMessage
    /\ response' = NoResponse
    /\ reqPublished' = EmptyDict

\* Line 237: socket.send_json(response) serialises the dict as it is now.
Send ==
    /\ pc["main"] = "send"
    /\ sent' = Deref(response)
    /\ owed' = owed - 1
    /\ LoopAgain
    /\ UNCHANGED <<exchange_rates, lock, call, log, preM, published, buildFailed,
                   shutdown_event, socket, startup>>

\* Lines 240-242: the handler's exception becomes the reply.
SendError ==
    /\ pc["main"] = "except"
    /\ sent' = response.body
    /\ owed' = owed - 1
    /\ LoopAgain
    /\ UNCHANGED <<exchange_rates, lock, call, log, preM, published, buildFailed,
                   shutdown_event, socket, startup>>

\* Lines 238-239: recv_json(NOBLOCK) finds no message and raises zmq.Again.
RecvAgain ==
    /\ pc["main"] = "loop"
    /\ pc' = [pc EXCEPT !["main"] = "sleep"]
    /\ UNCHANGED <<exchange_rates, lock, call, log, request, response, sent,
                   preM, published, reqPublished, buildFailed,
                   shutdown_event, socket, owed, startup>>

\* Line 239: sleep(1) is over, back to line 223.
SleepOver ==
    /\ pc["main"] = "sleep"
    /\ pc' = [pc EXCEPT !["main"] = "loop"]
    /\ UNCHANGED <<exchange_rates, lock, call, log, request, response, sent,
                   preM, published, reqPublished, buildFailed,
                   shutdown_event, socket, owed, startup>>

-----------------------------------------------------------------------------
(* The scheduler thread's loop (schedule_thread) *)

\* Line 138: the test of shutdown_event after sleep(1), or on entry.
SchedTest ==
    /\ pc["sched"] = "idle"
    /\ pc' = [pc EXCEPT !["sched"] = IF shutdown_event THEN "exited"
                                     ELSE "run_pending"]
    /\ UNCHANGED <<exchange_rates, lock, call, log, request, response, sent,
                   preM, published, reqPublished, buildFailed,
                   shutdown_event, socket, owed, startup>>

\* Lines 139-140: schedule.run_pending() finds no job due; sleep(1).
NoJobDue ==
    /\ pc["sched"] = "run_pending"
    /\ pc' = [pc EXCEPT !["sched"] = "idle"]
    /\ UNCHANGED <<exchange_rates, lock, call, log, request, response, sent,
                   preM, published, reqPublished, buildFailed,
                   shutdown_event, socket, owed, startup>>

-----------------------------------------------------------------------------
(* Shutdown: lines 244-256 *)

\* Where the main thread is once it has left the try block.
ShutdownPcs == {"finally", "join", "close", "stopped", "crashed"}

\* Lines 244-245: KeyboardInterrupt is raised in the main thread, wherever it
\* is inside the try block after line 211. A with block it is in releases the
\* lock; the locals of the function it is in are gone.
KeyboardInterrupt ==
    /\ pc["main"] \notin ShutdownPcs
    /\ pc' = [pc EXCEPT !["main"] = "finally"]
    /\ lock' = IF lock = "main" THEN "free" ELSE lock
    /\ call' = [call EXCEPT !["main"] = NoCall]
    /\ log' = IF pc["main"] \in CyclePcs THEN NoLog ELSE log
    /\ preM' = IF pc["main"] \in CyclePcs THEN EmptyDict ELSE preM
    /\ buildFailed' = (buildFailed \/ pc["main"] = "build")
    /\ request' = NoMessage
    /\ response' = NoResponse
    /\ reqPublished' = EmptyDict
    /\ UNCHANGED <<exchange_rates, sent, published,
                   shutdown_event, socket, owed, startup>>

\* Line 250: shutdown_event.set()
SetShutdown ==
    /\ pc["main"] = "finally"
    /\ shutdown_event' = TRUE
    /\ pc' = [pc EXCEPT !["main"] = "join"]
    /\ UNCHANGED <<exchange_rates, lock, call, log, request, response, sent,
                   preM, published, reqPublished, buildFailed,
                   socket, owed, startup>>

\* Line 252: scheduler_thread.join(). The name is bound by line 220: before
\* that the statement raises NameError, which leaves the finally block.
\* Otherwise it returns once schedule_thread has returned.
Join ==
    /\ pc["main"] = "join"
    /\ IF pc["sched"] = "not_started"
       THEN pc' = [pc EXCEPT !["main"] = "crashed"]
       ELSE /\ pc["sched"] = "exited"
            /\ pc' = [pc EXCEPT !["main"] = "close"]
    /\ UNCHANGED <<exchange_rates, lock, call, log, request, response, sent,
                   preM, published, reqPublished, buildFailed,
                   shutdown_event, socket, owed, startup>>

\* Lines 253-256: the socket is closed and the context terminated.
Close ==
    /\ pc["main"] = "close"
    /\ socket' = "closed"
    /\ pc' = [pc EXCEPT !["main"] = "stopped"]
    /\ UNCHANGED <<exchange_rates, lock, call, log, request, response, sent,
                   preM, published, reqPublished, buildFailed,
                   shutdown_event, owed, startup>>

-----------------------------------------------------------------------------
(* Specifications *)

Init ==
    /\ exchange_rates = EmptyDict
    /\ lock = "free"
    /\ pc = [t \in Threads |-> IF t = "main" THEN "startup" ELSE "not_started"]
    /\ call = [t \in Threads |-> NoCall]
    /\ log = NoLog
    /\ request = NoMessage
    /\ response = NoResponse
    /\ sent = NotSent
    /\ preM = EmptyDict
    /\ published = EmptyDict
    /\ reqPublished = EmptyDict
    /\ buildFailed = FALSE
    /\ shutdown_event = FALSE
    /\ socket = "bound"
    /\ owed = 0
    /\ startup = "pending"

\* One refresh cycle's steps on thread t.
Refresh(t) ==
    \/ UrlopenReturn(t)
    \/ UpdateAcquire(t)
    \/ BuildRowReset(t)
    \/ BuildEntry(t)
    \/ BuildRaise(t)
    \/ UpdateRelease(t)
    \/ FetchReturn(t)

Next ==
    \/ StartupRefresh
    \/ TimerFire
    \/ \E t \in Threads : Refresh(t)
    \/ ScheduleJob
    \/ StartThread
    \/ Recv
    \/ ConvertCheckAmount
    \/ ConvertAcquire
    \/ ConvertBody
    \/ GetRatesCheck
    \/ GetRatesReturn
    \/ GetSupported
    \/ UnknownAction
    \/ Send
    \/ SendError
    \/ RecvAgain
    \/ SleepOver
    \/ SchedTest
    \/ NoJobDue
    \/ KeyboardInterrupt
    \/ SetShutdown
    \/ Join
    \/ Close

\* The service.
Spec == Init /\ [][Next]_vars

\* The startup refresh alone, the provider's reply ranging over AllReplies.
UrlopenReturnAny ==
    /\ pc["main"] = "urlopen"
    /\ \E r \in AllReplies : FetchReply("main", r)

NextBuild ==
    \/ StartupRefresh
    \/ UrlopenReturnAny
    \/ UpdateAcquire("main")
    \/ BuildRowReset("main")
    \/ BuildEntry("main")
    \/ BuildRaise("main")
    \/ UpdateRelease("main")
    \/ FetchReturn("main")

SpecBuild == Init /\ [][NextBuild]_vars

-----------------------------------------------------------------------------
(* Properties *)

\* m holds exactly the ordered pairs of distinct supported currencies.
IsComplete(m) ==
    /\ DOMAIN m = Currencies
    /\ \A src \in Currencies : DOMAIN m[src] = Currencies \ {src}

Updated == [msg |-> "Exchange rates updated.", error |-> ""]

\* The provider call of the cycle on thread t failed, or its reply lacked the
\* base or the rates.
ProviderError(t) ==
    call[t].raised \/ call[t].base = None \/ call[t].rates = NoRates

\* The messages whose handler receives a data dict.
DataRequests == {m \in Requests : m.hasData}

\* C1: a refresh cycle that fails because of a provider error (the call raised,
\* or the reply has no base or no rates) ends with exchange_rates equal to what
\* it was when the cycle began, and both handlers answer every request as they
\* did before the cycle.
C1_FailedRefreshKeepsSnapshot ==
    \A t \in Threads :
        (pc[t] = "fetch_return" /\ ProviderError(t)) =>
            /\ exchange_rates = preM
            /\ \A m \in DataRequests :
                /\ handle_convert_currency(exchange_rates, m)
                       = handle_convert_currency(preM, m)
                /\ handle_get_exchange_rates(exchange_rates, m)
                       = handle_get_exchange_rates(preM, m)

\* A scheduled cycle whose provider call raised ends on a complete matrix that
\* is the one it began with.
C1_Witness ==
    /\ pc["sched"] = "fetch_return"
    /\ call["sched"].raised
    /\ IsComplete(preM)
    /\ exchange_rates = preM

\* C2: whenever exchange_rates_lock is free (and the service is not shutting
\* down) the table is empty or is the complete matrix of the latest build that
\* returned normally; and a cycle whose build raised reports a failure.
C2_NoPartialMatrix ==
    /\ (lock = "free" /\ pc["main"] \notin ShutdownPcs) =>
          \/ exchange_rates = EmptyDict
          \/ (exchange_rates = published /\ IsComplete(published))
    /\ \A t \in Threads :
          (pc[t] = "fetch_return" /\ exchange_rates # preM /\ log # Updated) =>
              log.msg = "Failed to fetch exchange rates"

\* The quote set of the cycle record c builds without raising.
Succeeds(c) ==
    /\ ~c.raised
    /\ c.base # None
    /\ c.rates # NoRates
    /\ \A src \in Currencies : \A tgt \in Currencies \ {src} :
          calculate_exchange_rate(c.base, src, tgt, c.rates).ok

\* C3: the mapping a get_exchange_rates request is about to send for a
\* supported code that had a published row when the request arrived is a
\* complete row (as the pre-refresh and the post-refresh mapping both are), never
\* an empty or partly filled one, while no build has ever raised and the refresh
\* in progress on the scheduler thread, if any, is a successful one.
C3_RatesReplyNeverMixed ==
    (/\ pc["main"] = "send"
     /\ request.action = "get_exchange_rates"
     /\ request.currency_code \in DOMAIN reqPublished
     /\ ~buildFailed
     /\ pc["sched"] \in CyclePcs =>
            pc["sched"] = "urlopen" \/ Succeeds(call["sched"]))
        => DOMAIN Deref(response) = Currencies \ {request.currency_code}

\* C4: when the critical section of handle_convert_currency runs while a
\* successful refresh cycle is in progress on the scheduler thread, for a pair
\* stored in the pre-refresh matrix, the reply is a conversion (no error) whose
\* factor is the pre-refresh or the post-refresh factor of the pair.
C4_ConvertSeesWholeMatrix ==
    [][ LET src == request.source_currency
            tgt == request.target_currency
            c == call["sched"]
            body == response'.body
        IN  (/\ pc["main"] = "convert_locked"
             /\ pc'["main"] = "send"
             /\ pc["sched"] \in CyclePcs
             /\ pc["sched"] = "urlopen" \/ Succeeds(c)
             /\ src \in DOMAIN preM
             /\ tgt \in DOMAIN preM[src])
            => /\ ~IsError(body)
               /\ \/ body.converted_amount = Mul(request.amount.val, preM[src][tgt])
                  \/ /\ pc["sched"] # "urlopen"
                     /\ body.converted_amount =
                          Mul(request.amount.val,
                              calculate_exchange_rate(c.base, src, tgt, c.rates).val)
      ]_vars

\* A conversion computed after the scheduler's build released the lock and
\* before its cycle returned, with the new factor, which differs from the old.
C4_Witness ==
    /\ pc["main"] = "send"
    /\ request.action = "convert_currency"
    /\ pc["sched"] = "fetch_return"
    /\ log = Updated
    /\ request.source_currency \in DOMAIN preM
    /\ request.target_currency \in DOMAIN preM[request.source_currency]
    /\ ~IsError(response.body)
    /\ response.body.converted_amount =
          Mul(request.amount.val,
              exchange_rates[request.source_currency][request.target_currency])
    /\ response.body.converted_amount #
          Mul(request.amount.val,
              preM[request.source_currency][request.target_currency])

\* The reply handler h gives on table m to the request in hand.
Answer(m) ==
    IF request.action = "convert_currency"
    THEN handle_convert_currency(m, request)
    ELSE handle_get_exchange_rates(m, request)

\* C5: a convert_currency or get_exchange_rates request received after a build
\* returned normally is answered from the matrix of the latest such build (the
\* one published when the request arrived, or one published since); stated for
\* the replies sent while no refresh cycle is in progress.
C5_RequestSeesLatestRefresh ==
    (/\ pc["main"] = "send"
     /\ request.action \in {"convert_currency", "get_exchange_rates"}
     /\ reqPublished # EmptyDict
     /\ pc["sched"] \notin CyclePcs)
        => \/ Deref(response) = Answer(reqPublished)
           \/ Deref(response) = Answer(published)

\* C6: a build that returns normally leaves exactly one entry for every ordered
\* pair of distinct supported currencies, no self entry and no other source or
\* target; and a base with a non-zero rate for every other supported currency
\* makes the build return normally.
C6_BuiltMatrixComplete ==
    pc["main"] = "fetch_return" =>
        LET c == call["main"] IN
        /\ log = Updated => IsComplete(exchange_rates)
        /\ (/\ ~ProviderError("main")
            /\ \A k \in Currencies \ {c.base} :
                  k \in DOMAIN c.rates /\ ~IsZero(c.rates[k]))
              => log = Updated

\* A build from a base other than USD has returned normally.
C6_Witness ==
    /\ pc["main"] = "fetch_return"
    /\ log = Updated
    /\ call["main"].base = "JPY"
    /\ IsComplete(exchange_rates)

\* C7: after a build that returns normally, the factor of every ordered pair
\* (src, tgt) is rates[tgt] when src is the base, 1 / rates[src] when tgt is the
\* base and rates[tgt] / rates[src] otherwise; base USD quoting EUR 2 and JPY 4
\* gives EUR->JPY 2, JPY->EUR 1/2, USD->EUR 2 and EUR->USD 1/2.
C7_Triangulation ==
    (pc["main"] = "fetch_return" /\ log = Updated) =>
        LET base == call["main"].base
            rates == call["main"].rates
        IN  /\ \A src \in Currencies : \A tgt \in Currencies \ {src} :
                  exchange_rates[src][tgt] =
                      IF src = base THEN rates[tgt]
                      ELSE IF tgt = base THEN Quot(Rat(1), rates[src])
                      ELSE Quot(rates[tgt], rates[src])
            /\ (base = "USD" /\ rates["EUR"] = Rat(2) /\ rates["JPY"] = Rat(4)) =>
                  /\ exchange_rates["EUR"]["JPY"] = <<2, 1>>
                  /\ exchange_rates["JPY"]["EUR"] = <<1, 2>>
                  /\ exchange_rates["USD"]["EUR"] = <<2, 1>>
                  /\ exchange_rates["EUR"]["USD"] = <<1, 2>>

\* The build of base USD quoting EUR 2 and JPY 4 has returned normally.
C7_Witness ==
    /\ pc["main"] = "fetch_return"
    /\ log = Updated
    /\ call["main"].base = "USD"
    /\ call["main"].rates["EUR"] = Rat(2)
    /\ call["main"].rates["JPY"] = Rat(4)
    /\ exchange_rates["JPY"]["EUR"] = <<1, 2>>

\* C8: after a build from a quote set whose rates for the currencies other than
\* the base are all positive, every factor is positive and the factors of a
\* pair and of its reverse multiply to exactly 1.
C8_ReciprocalPositive ==
    (/\ pc["main"] = "fetch_return"
     /\ log = Updated
     /\ \A k \in Currencies \ {call["main"].base} :
           IsPositive(call["main"].rates[k]))
        => \A a \in Currencies : \A b \in Currencies \ {a} :
              /\ IsPositive(exchange_rates[a][b])
              /\ Mul(exchange_rates[a][b], exchange_rates[b][a]) = Rat(1)

\* A build has left a cross rate of 3/4 and its reverse 4/3.
C8_Witness ==
    /\ pc["main"] = "fetch_return"
    /\ log = Updated
    /\ exchange_rates["EUR"]["GBP"] = <<3, 4>>
    /\ exchange_rates["GBP"]["EUR"] = <<4, 3>>

\* C9: while no build has returned normally, the reply about to be sent to a
\* convert_currency or get_exchange_rates request is an error reply; stated for
\* the replies sent while no refresh cycle is in progress.
C9_UnavailableBeforeFirstRefresh ==
    (/\ pc["main"] = "send"
     /\ request.action \in {"convert_currency", "get_exchange_rates"}
     /\ published = EmptyDict
     /\ pc["sched"] \notin CyclePcs)
        => IsError(Deref(response))

\* C10: a convert_currency request whose amount is not a JSON number is answered
\* "Amount must be a number", and the handler neither takes the lock nor changes
\* the table for it.
C10_NonNumericAmountRejected ==
    (/\ request.action = "convert_currency"
     /\ request.hasData
     /\ request.amount.type \notin {"int", "float"})
        => /\ pc["main"] \in {"dispatch", "send"}
           /\ lock # "main"
           /\ pc["main"] = "send" =>
                 response = Fresh(Error("Amount must be a number"))

\* The main thread takes a step that stays inside the request loop.
MainSteps == pc'["main"] # pc["main"] /\ pc'["main"] \notin ShutdownPcs

\* C11: the critical section of handle_convert_currency, run when the source is
\* not a key of the table or the target is not a key of the source's row, and
\* handle_get_exchange_rates, run when the code is not a key of the table (the
\* codes include None, read for a missing field), return the reply
\* {"error": "Invalid currency code"} without raising, and the table is the
\* same after the step.
C11_UnknownCurrencyIsError ==
    [][ LET src == request.source_currency
            tgt == request.target_currency
            unknownPair == \/ src \notin DOMAIN exchange_rates
                           \/ tgt \notin DOMAIN exchange_rates[src]
            unknownCode == request.currency_code \notin DOMAIN exchange_rates
        IN  ((/\ MainSteps
              /\ \/ pc["main"] = "convert_locked" /\ unknownPair
                 \/ /\ pc["main"] = "dispatch"
                    /\ request.action = "get_exchange_rates"
                    /\ request.hasData
                    /\ unknownCode)
             => /\ pc'["main"] = "send"
                /\ response' = Fresh(Error("Invalid currency code"))
                /\ exchange_rates' = exchange_rates)
      ]_vars

\* A conversion to a code missing from the source's row of a complete matrix
\* has been answered with the error.
C11_Witness ==
    /\ pc["main"] = "send"
    /\ request.action = "convert_currency"
    /\ request.source_currency = "USD"
    /\ request.target_currency = "CHF"
    /\ IsComplete(exchange_rates)
    /\ response = Fresh(Error("Invalid currency code"))

\* The actions the loop dispatches to a handler.
Actions == {"convert_currency", "get_exchange_rates", "get_supported_currencies"}

\* Message m carries a request-level error: an unrecognized action, no data
\* object for a handler that reads one, an amount that is not a JSON number, or
\* a currency code that is not a supported one.
ErrorRequest(m) ==
    \/ m.action \notin Actions
    \/ m.action \in {"convert_currency", "get_exchange_rates"} /\ ~m.hasData
    \/ /\ m.action = "convert_currency"
       /\ m.hasData
       /\ \/ m.amount.type \notin {"int", "float"}
          \/ m.source_currency \notin Currencies
          \/ m.target_currency \notin Currencies
    \/ /\ m.action = "get_exchange_rates"
       /\ m.hasData
       /\ m.currency_code \notin Currencies

\* C12: when the request in hand carries a request-level error, or asks for a
\* conversion or for rates while the table is empty, the step that ends its
\* iteration sends a reply of the form {"error": ...} and returns to the
\* receive of line 225 with the socket still bound; and the main thread leaves
\* the loop for the finally block only on KeyboardInterrupt.
C12_ErrorsKeepServing ==
    [][ /\ (/\ pc["main"] \in {"send", "except"}
            /\ MainSteps
            /\ \/ ErrorRequest(request)
               \/ /\ request.action \in {"convert_currency", "get_exchange_rates"}
                  /\ exchange_rates = EmptyDict)
           => /\ IsError(sent')
              /\ owed' = 0
              /\ pc'["main"] = "loop"
              /\ socket' = "bound"
        /\ (pc["main"] \notin ShutdownPcs /\ pc'["main"] \in ShutdownPcs)
              => KeyboardInterrupt
      ]_vars

\* Where the main thread is between a receive and the send that answers it.
HandlingPcs == {"dispatch", "convert_acquire", "convert_locked", "rates_return",
                "send", "except"}

\* C13: the socket never owes more than one reply; at the receive of line 225
\* (and in the sleep after zmq.Again) every request received has had its reply,
\* so each request got exactly one; and while a request is being handled,
\* whether its handler returned or raised, exactly one reply is owed and none
\* has been sent for it yet. Before the loop nothing is owed and nothing sent.
C13_StrictAlternation ==
    /\ owed \in {0, 1}
    /\ pc["main"] \in {"loop", "sleep"} => owed = 0
    /\ pc["main"] \in HandlingPcs => (owed = 1 /\ sent = NotSent)
    /\ pc["main"] \notin HandlingPcs \cup {"loop", "sleep"} \cup ShutdownPcs
          => (owed = 0 /\ sent = NotSent)

\* The exception branch has sent the one reply of a request whose handler
\* raised, and the loop is back at the receive.
C13_Witness ==
    /\ pc["main"] = "loop"
    /\ owed = 0
    /\ sent = Error("'NoneType' object has no attribute 'get'")

\* C14: until the refresh of line 214 has returned (having updated the table or
\* failed) the scheduler thread is not started and no request has been
\* received; and a request in hand finds the table empty only if that refresh
\* failed.
C14_StartupRefreshFirst ==
    /\ startup = "pending" =>
          /\ pc["sched"] = "not_started"
          /\ pc["main"] \in {"startup"} \cup CyclePcs \cup ShutdownPcs
          /\ owed = 0
          /\ request = NoMessage
    /\ (pc["main"] \in HandlingPcs /\ exchange_rates = EmptyDict) =>
          startup = "failed"

\* The first request is in hand with an empty table, after a startup refresh
\* that failed and before any scheduled refresh.
C14_Witness ==
    /\ pc["main"] = "dispatch"
    /\ exchange_rates = EmptyDict
    /\ startup = "failed"
    /\ sent = NotSent
    /\ pc["sched"] = "idle"

\* C15: exchange_rates_lock is not held by a thread whose provider call is in
\* flight; once the startup refresh has returned the main thread makes no
\* provider call; and when handle_convert_currency waits for the lock, the lock
\* is held by the scheduler thread inside its in-memory build, while a provider
\* call in flight on the scheduler thread leaves the lock free for the handler.
C15_NoLockAcrossProviderCall ==
    /\ \A t \in Threads : pc[t] = "urlopen" => lock # t
    /\ pc["main"] = "urlopen" => startup = "pending"
    /\ (pc["main"] = "convert_acquire" /\ lock # "free") =>
          (lock = "sched" /\ pc["sched"] \in {"build", "release"})
    /\ (pc["main"] = "convert_acquire" /\ pc["sched"] = "urlopen") =>
          ENABLED ConvertAcquire

\* The handler is in its critical section while the scheduler's provider call
\* is in flight.
C15_Witness ==
    /\ pc["main"] = "convert_locked"
    /\ lock = "main"
    /\ pc["sched"] = "urlopen"

\* C16: once the main thread has left the finally block, however it got there,
\* the socket is closed (and its context terminated) and the scheduler thread,
\* if it was started, has left its loop; and from the moment shutdown begins no
\* request is received.
C16_ShutdownReleasesSocket ==
    /\ pc["main"] \in {"stopped", "crashed"} =>
          /\ socket = "closed"
          /\ pc["sched"] \in {"not_started", "exited"}
    /\ pc["main"] \in ShutdownPcs => ~ENABLED Recv

\* The lines a refresh cycle prints for a failure.
FailureLines == {"Failed to fetch exchange rates", "Failed to update exchange rates."}

\* The error replies the loop sends.
ReplyErrors ==
    {"Invalid currency code", "Amount must be a number", "Unknown action",
     "'NoneType' object has no attribute 'get'"}

\* C17: a scheduled cycle that ends without "Exchange rates updated." has
\* printed a failure line, and its next step takes the scheduler thread back to
\* the sleep before the next tick (not to a new provider call, not out of its
\* loop); the scheduler thread leaves its loop only after shutdown_event is
\* set; no reply carries a refresh failure; whenever run_pending is reached the
\* job can fire, whatever failed before; and a scheduled cycle that ends with
\* "Exchange rates updated.", also after failed ones, leaves the complete
\* matrix of its own quote set published.
C17_FailedRefreshWaitsForTick ==
    [][ LET c == call["sched"] IN
        /\ (pc["sched"] = "fetch_return" /\ log # Updated) =>
              log.msg \in FailureLines
        /\ (pc["sched"] = "fetch_return" /\ pc'["sched"] # "fetch_return") =>
              pc'["sched"] = "idle"
        /\ pc'["sched"] = "exited" => shutdown_event
        /\ pc'["main"] = "loop" /\ IsError(sent') => sent'.error \in ReplyErrors
        /\ pc["sched"] = "run_pending" => ENABLED TimerFire
        /\ (pc["sched"] = "fetch_return" /\ log = Updated) =>
              /\ exchange_rates = Triangulated(c.base, c.rates)
              /\ published = exchange_rates
      ]_vars

\* After a startup refresh that updated the table and a scheduled cycle whose
\* build failed, a later scheduled cycle has updated the table.
C17_Witness ==
    /\ pc["sched"] = "fetch_return"
    /\ log = Updated
    /\ startup = "updated"
    /\ buildFailed
    /\ pc["main"] \notin ShutdownPcs
    /\ IsComplete(published)

\* C18: the critical section of handle_convert_currency, run for an int or
\* float amount and a pair stored in the table, returns the reply that echoes
\* source, target and amount with converted_amount = amount * the stored rate,
\* and leaves the table as it was; 100 USD at a USD->EUR rate of 0.9 gives 90.
C18_ConvertMultiplies ==
    [][ LET src == request.source_currency
            tgt == request.target_currency
        IN  (/\ pc["main"] = "convert_locked"
             /\ MainSteps
             /\ request.amount.type \in {"int", "float"}
             /\ src \in DOMAIN exchange_rates
             /\ tgt \in DOMAIN exchange_rates[src])
            => /\ pc'["main"] = "send"
               /\ response' =
                     Fresh([source_currency |-> src,
                            target_currency |-> tgt,
                            amount |-> request.amount,
                            converted_amount |->
                                Mul(request.amount.val, exchange_rates[src][tgt])])
               /\ exchange_rates' = exchange_rates
               /\ (/\ src = "USD" /\ tgt = "EUR"
                   /\ request.amount = IntAmount(100)
                   /\ exchange_rates["USD"]["EUR"] = <<9, 10>>)
                     => response'.body.converted_amount = Rat(90)
      ]_vars

\* 100 USD has been converted to EUR at 0.9.
C18_Witness ==
    /\ pc["main"] = "send"
    /\ request = ConvertMessage("USD", "EUR", IntAmount(100))
    /\ published # EmptyDict
    /\ published["USD"]["EUR"] = <<9, 10>>
    /\ ~IsError(response.body)
    /\ response.body.converted_amount = Rat(90)

\* C19: a convert_currency request with a number for amount and the same
\* supported currency as source and target is answered "Invalid currency
\* code", whatever the table holds; and no row of the table ever has an entry
\* for its own source.
C19_NoIdentityConversion ==
    /\ (/\ pc["main"] = "send"
        /\ request.action = "convert_currency"
        /\ request.hasData
        /\ IsNumber(request.amount)
        /\ request.source_currency \in Currencies
        /\ request.source_currency = request.target_currency)
          => response = Fresh(Error("Invalid currency code"))
    /\ \A src \in DOMAIN exchange_rates : src \notin DOMAIN exchange_rates[src]

\* 100 USD -> USD has been refused on a complete matrix.
C19_Witness ==
    /\ pc["main"] = "send"
    /\ request = ConvertMessage("USD", "USD", IntAmount(100))
    /\ IsComplete(exchange_rates)
    /\ response = Fresh(Error("Invalid currency code"))

\* Where thread t is while it holds exchange_rates_lock.
LockedPcs(t) ==
    IF t = "main" THEN {"build", "release", "convert_locked"}
    ELSE {"build", "release"}

\* Where thread t is while it waits for exchange_rates_lock.
WaitingPcs(t) ==
    IF t = "main" THEN {"acquire", "convert_acquire"} ELSE {"acquire"}

\* The step the holder t of the lock takes next.
HolderStep(t) ==
    \/ BuildRowReset(t) \/ BuildEntry(t) \/ BuildRaise(t) \/ UpdateRelease(t)
    \/ (t = "main" /\ ConvertBody)

\* C20: a thread holds exchange_rates_lock exactly while it is inside one of the
\* two with blocks, so the lock is free again after an early error return, a
\* normal return and an exception raised in the build; the two threads are
\* never both inside a with block; and whenever a thread waits for the lock
\* the other thread holds it and can take its next step without waiting for
\* anything, while a free lock can be taken by the thread that waits for it.
C20_LockAlwaysReleased ==
    /\ \A t \in Threads : lock = t <=> pc[t] \in LockedPcs(t)
    /\ ~(pc["main"] \in LockedPcs("main") /\ pc["sched"] \in LockedPcs("sched"))
    /\ \A t \in Threads :
          pc[t] \in WaitingPcs(t) =>
              IF lock = "free"
              THEN ENABLED (UpdateAcquire(t) \/ (t = "main" /\ ConvertAcquire))
              ELSE /\ lock # t
                   /\ pc[lock] \notin WaitingPcs(lock)
                   /\ ENABLED HolderStep(lock)

\* The handler is in its critical section after the build of the scheduler's
\* current cycle raised.
C20_Witness ==
    /\ pc["main"] = "convert_locked"
    /\ lock = "main"
    /\ pc["sched"] = "fetch_return"
    /\ log.msg = "Failed to fetch exchange rates"
    /\ log.error # "URLError"

====
